---- MODULE Spec2Model ----
(***************************************************************************)
(* Model of src/meta.c (tinc): send_meta, broadcast_meta and receive_meta. *)
(*                                                                         *)
(* Two specifications share this module.                                   *)
(*   Spec      one meta connection c of the local daemon whose socket is   *)
(*             fed by a loopback peer that calls send_meta; the local      *)
(*             event loop calls receive_meta(c).                           *)
(*   SpecSend  the connection registry of the local daemon, with send_meta *)
(*             and broadcast_meta running over it.                         *)
(***************************************************************************)
EXTENDS Integers, Sequences, FiniteSets, TLC

(***************************************************************************)
(* Bounds of the model.                                                    *)
(***************************************************************************)
\* Total number of bytes the loopback peer pushes through its socket.
MaxStream == 4
\* Longest buffer handed to one send_meta call.
MaxPayload == 2
\* Number of connection objects that can sit in connection_tree.
MaxConn == 3

(***************************************************************************)
(* Bytes.  The line terminator is the real '\n'; the other bytes are the   *)
(* first characters of the request kinds the model distinguishes.          *)
(***************************************************************************)
NL == 10

Alphabet == <<10, 97, 107, 112, 120>>

ByteA == Alphabet[2]
ByteK == Alphabet[3]
ByteP == Alphabet[4]
ByteX == Alphabet[5]

Byte == {Alphabet[i] : i \in 1..Len(Alphabet)}

\* char inbuf[MAXBUFSIZE]: one recv can return the whole pending stream.
MAXBUFSIZE == MaxStream + 1

Min(a, b) == IF a < b THEN a ELSE b

SeqsUpTo(S, n) == UNION {[1..k -> S] : k \in 0..n}

Drop(s, n) == SubSeq(s, n + 1, Len(s))

Take(s, n) == SubSeq(s, 1, n)

(***************************************************************************)
(* The cipher collaborator: a length-preserving stream cipher.  Its state  *)
(* is the keystream position; byte i of the stream is rotated in the       *)
(* alphabet by KeyStream(i), which is never the identity.                  *)
(***************************************************************************)
IndexOf(b) == CHOOSE i \in 1..Len(Alphabet) : Alphabet[i] = b

KeyStream(pos) == 1 + (pos % 3)

EncByte(b, pos) ==
    Alphabet[((IndexOf(b) - 1 + KeyStream(pos)) % Len(Alphabet)) + 1]

DecByte(b, pos) ==
    Alphabet[((IndexOf(b) - 1 + Len(Alphabet) - KeyStream(pos)) % Len(Alphabet)) + 1]

CipherOutcome == {"ok", "fail", "badlen"}

\* cipher_encrypt(&c->outcipher, buffer, length, outbuf, &outlen, false)
cipher_encrypt(state, in, outcome) ==
    [ok     |-> outcome # "fail",
     outlen |-> IF outcome = "badlen" THEN Len(in) - 1 ELSE Len(in),
     out    |-> [i \in 1..Len(in) |-> EncByte(in[i], state + i - 1)],
     state  |-> state + Len(in)]

\* cipher_decrypt(&c->incipher, bufp, inlen, input->buffer + off, &outlen, false)
cipher_decrypt(state, in, outcome) ==
    [ok     |-> outcome # "fail",
     outlen |-> IF outcome = "badlen" THEN Len(in) - 1 ELSE Len(in),
     out    |-> [i \in 1..Len(in) |-> DecByte(in[i], state + i - 1)],
     state  |-> state + Len(in)]


(***************************************************************************)
(* The Encrypted Writer.  c is a connection, of which send_meta uses       *)
(* encryptout and outcipher; buffer is the byte sequence to send.  The     *)
(* outcome of the cipher call and the result of write(2) are inputs.  The  *)
(* result lists the write calls issued, each with the bytes handed to the  *)
(* transport and whether the transport accepted them.                      *)
(***************************************************************************)
WriteResult == {"ok", "fail"}

\* send_meta with the plaintext handed to write() on the encrypted path.
send_meta_WritesPlaintext(c, buffer, outcome, wres) ==
    IF c.encryptout
    THEN LET e == cipher_encrypt(c.outcipher, buffer, outcome)
         IN  IF ~e.ok \/ e.outlen # Len(buffer)
             THEN [ret |-> FALSE, writes |-> <<>>, log |-> <<"LOG_ERR">>,
                   c |-> [c EXCEPT !.outcipher = e.state]]
             ELSE [ret |-> TRUE, writes |-> <<[data |-> buffer, ok |-> wres = "ok"]>>,
                   log |-> <<>>, c |-> [c EXCEPT !.outcipher = e.state]]
    ELSE [ret |-> TRUE, writes |-> <<[data |-> buffer, ok |-> wres = "ok"]>>,
          log |-> <<>>, c |-> c]

\* send_meta with the output buffer written before the cipher result is looked at.
send_meta_WritesBeforeCheck(c, buffer, outcome, wres) ==
    IF c.encryptout
    THEN LET e == cipher_encrypt(c.outcipher, buffer, outcome)
         IN  [ret    |-> e.ok /\ e.outlen = Len(buffer),
              writes |-> <<[data |-> e.out, ok |-> wres = "ok"]>>,
              log    |-> IF e.ok /\ e.outlen = Len(buffer) THEN <<>> ELSE <<"LOG_ERR">>,
              c      |-> [c EXCEPT !.outcipher = e.state]]
    ELSE [ret    |-> TRUE,
          writes |-> <<[data |-> buffer, ok |-> wres = "ok"]>>,
          log    |-> <<>>,
          c      |-> c]

send_meta(c, buffer, outcome, wres) ==
    IF c.encryptout
    THEN LET e == cipher_encrypt(c.outcipher, buffer, outcome)
         IN  IF ~e.ok \/ e.outlen # Len(buffer)
             THEN [ret    |-> FALSE,
                   writes |-> <<>>,
                   log    |-> <<"LOG_ERR">>,
                   c      |-> [c EXCEPT !.outcipher = e.state]]
             ELSE [ret    |-> TRUE,
                   writes |-> <<[data |-> e.out, ok |-> wres = "ok"]>>,
                   log    |-> <<>>,
                   c      |-> [c EXCEPT !.outcipher = e.state]]
    ELSE [ret    |-> TRUE,
          writes |-> <<[data |-> buffer, ok |-> wres = "ok"]>>,
          log    |-> <<>>,
          c      |-> c]

(***************************************************************************)
(* The consumers receive_meta dispatches to.  The receiving side of a      *)
(* connection is [input, tcplen, decryptin, incipher].                     *)
(*                                                                         *)
(* receive_request answers by the first byte of the request: a request     *)
(* starting with ByteX is rejected, one starting with ByteP announces a    *)
(* raw packet whose length is the length of the request, one starting with *)
(* ByteK switches inbound decryption on.                                   *)
(***************************************************************************)
receive_request(c, request) ==
    IF request = <<>> THEN [result |-> TRUE, c |-> c]
    ELSE IF request[1] = ByteX THEN [result |-> FALSE, c |-> c]
    ELSE IF request[1] = ByteP
         THEN [result |-> TRUE, c |-> [c EXCEPT !.tcplen = Len(request)]]
    ELSE IF request[1] = ByteK
         THEN [result |-> TRUE, c |-> [c EXCEPT !.decryptin = TRUE]]
    ELSE [result |-> TRUE, c |-> c]

receive_tcppacket(c, packet) == c

\* evbuffer_readline: the bytes before the first terminator, which is
\* drained from the buffer together with them.
HasNL(s) == \E i \in 1..Len(s) : s[i] = NL

FirstNL(s) == CHOOSE i \in 1..Len(s) : s[i] = NL /\ \A j \in 1..(i - 1) : s[j] # NL

evbuffer_readline(input) ==
    IF HasNL(input)
    THEN [request |-> Take(input, FirstNL(input) - 1),
          found   |-> TRUE,
          input   |-> Drop(input, FirstNL(input))]
    ELSE [request |-> <<>>, found |-> FALSE, input |-> input]

(***************************************************************************)
(* The Stream Demultiplexer.                                               *)
(*                                                                         *)
(* A run of receive_meta is a record r:                                    *)
(*   c      the connection; receive_meta uses input, tcplen, decryptin     *)
(*          and incipher                                                   *)
(*   inbuf  the unconsumed part of the scratch buffer (bufp .. bufp+inlen) *)
(*   ev     the handler invocations so far, each with the buffer, tcplen   *)
(*          and decryptin as they were at the moment of the call, and the  *)
(*          connection as it was when the loop went on (post)              *)
(*   rx     the bytes appended to the accumulation buffer so far: the raw  *)
(*          byte read, the byte appended, and whether it was decrypted     *)
(*   log    the severities of the diagnostics emitted                      *)
(*   ret    the return value, meaningful once go = "return"                *)
(*   attempt  empty, or the buffer and the number of handler invocations   *)
(*          at the moment a decryption failed                              *)
(*   go     "run" while the call is running, "return" once it returned     *)
(*   outer  per finished transfer of the outer loop, the scratch bytes it  *)
(*          consumed                                                       *)
(*   inner  per pass of the inner loop, the bytes it removed from the      *)
(*          buffer and whether it went on ("continue") or left ("break")   *)
(***************************************************************************)
ReadResult ==
    [inlen : {-1, 0}, errno : {"0", "EWOULDBLOCK", "ECONNRESET"}]
        \cup [inlen : 1..MAXBUFSIZE, errno : {"0"}]

sockwouldblock(errno) == errno = "EWOULDBLOCK"

\* NoData with would-block treated as a read error.
NoData_WouldBlockFatal(r, rd, debug) ==
    IF rd.inlen = 0 \/ rd.errno = "0"
    THEN [r EXCEPT !.go = "return", !.ret = FALSE,
                   !.log = IF debug THEN <<"LOG_NOTICE">> ELSE <<>>]
    ELSE [r EXCEPT !.go = "return", !.ret = FALSE, !.log = <<"LOG_ERR">>]

\* NoData with the close test reduced to !errno.
NoData_ErrnoOnly(r, rd, debug) ==
    IF rd.errno = "0"
    THEN [r EXCEPT !.go = "return", !.ret = FALSE,
                   !.log = IF debug THEN <<"LOG_NOTICE">> ELSE <<>>]
    ELSE IF sockwouldblock(rd.errno)
    THEN [r EXCEPT !.go = "return", !.ret = TRUE]
    ELSE [r EXCEPT !.go = "return", !.ret = FALSE, !.log = <<"LOG_ERR">>]

\* Lines 94-104: the classification of a read that returned no data.
NoData(r, rd, debug) ==
    IF rd.inlen = 0 \/ rd.errno = "0"
    THEN [r EXCEPT !.go = "return", !.ret = FALSE,
                   !.log = IF debug THEN <<"LOG_NOTICE">> ELSE <<>>]
    ELSE IF sockwouldblock(rd.errno)
    THEN [r EXCEPT !.go = "return", !.ret = TRUE]
    ELSE [r EXCEPT !.go = "return", !.ret = FALSE, !.log = <<"LOG_ERR">>]

\* PlainPiece that takes the whole scratch buffer as one piece.
PlainPiece_WholeScratch(inbuf) == Len(inbuf)

\* PlainPiece without endp++: the piece ends before the terminator.
PlainPiece_NoIncrement(inbuf) ==
    IF HasNL(inbuf) THEN FirstNL(inbuf) - 1 ELSE Len(inbuf)

\* Lines 108-112: endp, as the number of scratch bytes up to it.
PlainPiece(inbuf) ==
    IF HasNL(inbuf) THEN FirstNL(inbuf) ELSE Len(inbuf)

\* Transfer with evbuffer_add given inlen instead of endp - bufp.
Transfer_AddsInlen(r, outcome) ==
    IF ~r.c.decryptin
    THEN LET n == PlainPiece(r.inbuf)
         IN  [r EXCEPT
                !.c.input = r.c.input \o r.inbuf,
                !.rx      = r.rx \o [i \in 1..Len(r.inbuf) |->
                               [raw |-> r.inbuf[i], out |-> r.inbuf[i], dec |-> FALSE]],
                !.inbuf   = Drop(r.inbuf, n)]
    ELSE LET d == cipher_decrypt(r.c.incipher, r.inbuf, outcome)
         IN  IF ~d.ok \/ Len(r.inbuf) # d.outlen
             THEN [r EXCEPT !.go = "return", !.ret = FALSE,
                            !.log = r.log \o <<"LOG_ERR">>,
                            !.attempt = <<[input |-> r.c.input, nev |-> Len(r.ev)]>>,
                            !.c.incipher = d.state]
             ELSE [r EXCEPT
                     !.c.input    = r.c.input \o d.out,
                     !.c.incipher = d.state,
                     !.rx         = r.rx \o [i \in 1..Len(r.inbuf) |->
                                       [raw |-> r.inbuf[i], out |-> d.out[i], dec |-> TRUE]],
                     !.inbuf      = <<>>]

\* Transfer with the result of cipher_decrypt not checked.
Transfer_NoCipherCheck(r, outcome) ==
    IF ~r.c.decryptin
    THEN LET n == PlainPiece(r.inbuf)
         IN  [r EXCEPT
                !.c.input = r.c.input \o Take(r.inbuf, n),
                !.rx      = r.rx \o [i \in 1..n |->
                               [raw |-> r.inbuf[i], out |-> r.inbuf[i], dec |-> FALSE]],
                !.inbuf   = Drop(r.inbuf, n)]
    ELSE LET d == cipher_decrypt(r.c.incipher, r.inbuf, outcome)
         IN  [r EXCEPT
                !.c.input    = r.c.input \o d.out,
                !.c.incipher = d.state,
                !.attempt    = IF ~d.ok \/ Len(r.inbuf) # d.outlen
                               THEN <<[input |-> r.c.input, nev |-> Len(r.ev)]>>
                               ELSE <<>>,
                !.rx         = r.rx \o [i \in 1..Len(r.inbuf) |->
                                  [raw |-> r.inbuf[i], out |-> d.out[i], dec |-> TRUE]],
                !.inbuf      = <<>>]

\* Transfer without c->buffer->input->off += inlen after the decryption.
Transfer_NoOffAdvance(r, outcome) ==
    IF ~r.c.decryptin
    THEN LET n == PlainPiece(r.inbuf)
         IN  [r EXCEPT
                !.c.input = r.c.input \o Take(r.inbuf, n),
                !.rx      = r.rx \o [i \in 1..n |->
                               [raw |-> r.inbuf[i], out |-> r.inbuf[i], dec |-> FALSE]],
                !.inbuf   = Drop(r.inbuf, n)]
    ELSE LET d == cipher_decrypt(r.c.incipher, r.inbuf, outcome)
         IN  IF ~d.ok \/ Len(r.inbuf) # d.outlen
             THEN [r EXCEPT !.go = "return", !.ret = FALSE,
                            !.log = r.log \o <<"LOG_ERR">>,
                            !.attempt = <<[input |-> r.c.input, nev |-> Len(r.ev)]>>,
                            !.c.incipher = d.state]
             ELSE [r EXCEPT
                     !.c.incipher = d.state,
                     !.inbuf      = <<>>]

\* Transfer that tests c->status.encryptout where decryptin is meant.
Transfer_TestsEncryptOut(r, outcome) ==
    IF ~r.c.encryptout
    THEN LET n == PlainPiece(r.inbuf)
         IN  [r EXCEPT
                !.c.input = r.c.input \o Take(r.inbuf, n),
                !.rx      = r.rx \o [i \in 1..n |->
                               [raw |-> r.inbuf[i], out |-> r.inbuf[i], dec |-> FALSE]],
                !.inbuf   = Drop(r.inbuf, n)]
    ELSE LET d == cipher_decrypt(r.c.incipher, r.inbuf, outcome)
         IN  IF ~d.ok \/ Len(r.inbuf) # d.outlen
             THEN [r EXCEPT !.go = "return", !.ret = FALSE,
                            !.log = r.log \o <<"LOG_ERR">>,
                            !.attempt = <<[input |-> r.c.input, nev |-> Len(r.ev)]>>,
                            !.c.incipher = d.state]
             ELSE [r EXCEPT
                     !.c.input    = r.c.input \o d.out,
                     !.c.incipher = d.state,
                     !.rx         = r.rx \o [i \in 1..Len(r.inbuf) |->
                                       [raw |-> r.inbuf[i], out |-> d.out[i], dec |-> TRUE]],
                     !.inbuf      = <<>>]

\* Lines 107-131: move scratch bytes into the accumulation buffer.
Transfer(r, outcome) ==
    IF ~r.c.decryptin
    THEN LET n == PlainPiece(r.inbuf)
         IN  [r EXCEPT
                !.c.input = r.c.input \o Take(r.inbuf, n),
                !.rx      = r.rx \o [i \in 1..n |->
                               [raw |-> r.inbuf[i], out |-> r.inbuf[i], dec |-> FALSE]],
                !.inbuf   = Drop(r.inbuf, n)]
    ELSE LET d == cipher_decrypt(r.c.incipher, r.inbuf, outcome)
         IN  IF ~d.ok \/ Len(r.inbuf) # d.outlen
             THEN [r EXCEPT !.go = "return", !.ret = FALSE,
                            !.log = r.log \o <<"LOG_ERR">>,
                            !.attempt = <<[input |-> r.c.input, nev |-> Len(r.ev)]>>,
                            !.c.incipher = d.state]
             ELSE [r EXCEPT
                     !.c.input    = r.c.input \o d.out,
                     !.c.incipher = d.state,
                     !.rx         = r.rx \o [i \in 1..Len(r.inbuf) |->
                                       [raw |-> r.inbuf[i], out |-> d.out[i], dec |-> TRUE]],
                     !.inbuf      = <<>>]

\* DrainPacket without c->tcplen = 0.
DrainPacket_NoReset(r) ==
    IF r.c.tcplen <= Len(r.c.input)
    THEN LET packet == Take(r.c.input, r.c.tcplen)
             c1     == receive_tcppacket(r.c, packet)
         IN  [r EXCEPT
                !.ev = r.ev \o <<[kind      |-> "tcppacket",
                                  data      |-> packet,
                                  before    |-> r.c.input,
                                  input     |-> r.c.input,
                                  tcplen    |-> r.c.tcplen,
                                  decryptin |-> r.c.decryptin,
                                  result    |-> TRUE,
                                  post      |-> [c1 EXCEPT
                                                   !.input = Drop(c1.input, r.c.tcplen)]]>>,
                !.c  = [c1 EXCEPT !.input = Drop(c1.input, r.c.tcplen)],
                !.drain = "continue"]
    ELSE [r EXCEPT !.drain = "break"]

\* Lines 136-145: a raw packet is expected.  "continue" or "break".
DrainPacket(r) ==
    IF r.c.tcplen <= Len(r.c.input)
    THEN LET packet == Take(r.c.input, r.c.tcplen)
             c1     == receive_tcppacket(r.c, packet)
         IN  [r EXCEPT
                !.ev = r.ev \o <<[kind      |-> "tcppacket",
                                  data      |-> packet,
                                  before    |-> r.c.input,
                                  input     |-> r.c.input,
                                  tcplen    |-> r.c.tcplen,
                                  decryptin |-> r.c.decryptin,
                                  result    |-> TRUE,
                                  post      |-> [c1 EXCEPT
                                                   !.input  = Drop(c1.input, r.c.tcplen),
                                                   !.tcplen = 0]]>>,
                !.c  = [c1 EXCEPT !.input  = Drop(c1.input, r.c.tcplen),
                                  !.tcplen = 0],
                !.drain = "continue"]
    ELSE [r EXCEPT !.drain = "break"]

\* DrainRequest with the result of receive_request not checked.
DrainRequest_IgnoresResult(r) ==
    LET l == evbuffer_readline(r.c.input)
    IN  IF l.found
        THEN LET c0 == [r.c EXCEPT !.input = l.input]
                 h  == receive_request(c0, l.request)
             IN  [r EXCEPT
                    !.ev = r.ev \o <<[kind      |-> "request",
                                      data      |-> l.request,
                                      before    |-> r.c.input,
                                      input     |-> c0.input,
                                      tcplen    |-> c0.tcplen,
                                      decryptin |-> c0.decryptin,
                                      result    |-> h.result,
                                      post      |-> h.c]>>,
                    !.c  = h.c,
                    !.drain = "continue"]
        ELSE [r EXCEPT !.drain = "break"]

\* DrainRequest that leaves the inner loop, not the function, on a rejection.
DrainRequest_BreaksOnReject(r) ==
    LET l == evbuffer_readline(r.c.input)
    IN  IF l.found
        THEN LET c0 == [r.c EXCEPT !.input = l.input]
                 h  == receive_request(c0, l.request)
                 r1 == [r EXCEPT
                          !.ev = r.ev \o <<[kind      |-> "request",
                                            data      |-> l.request,
                                            before    |-> r.c.input,
                                            input     |-> c0.input,
                                            tcplen    |-> c0.tcplen,
                                            decryptin |-> c0.decryptin,
                                            result    |-> h.result,
                                            post      |-> h.c]>>,
                          !.c  = h.c]
             IN  IF ~h.result
                 THEN [r1 EXCEPT !.drain = "break"]
                 ELSE [r1 EXCEPT !.drain = "continue"]
        ELSE [r EXCEPT !.drain = "break"]

\* DrainRequest that calls receive_request while the line is still buffered
\* and removes it afterwards.
DrainRequest_RemovesAfter(r) ==
    LET l == evbuffer_readline(r.c.input)
    IN  IF l.found
        THEN LET h  == receive_request(r.c, l.request)
                 c1 == [h.c EXCEPT !.input = l.input]
                 r1 == [r EXCEPT
                          !.ev = r.ev \o <<[kind      |-> "request",
                                            data      |-> l.request,
                                            before    |-> r.c.input,
                                            input     |-> r.c.input,
                                            tcplen    |-> r.c.tcplen,
                                            decryptin |-> r.c.decryptin,
                                            result    |-> h.result,
                                            post      |-> c1]>>,
                          !.c  = c1]
             IN  IF ~h.result
                 THEN [r1 EXCEPT !.go = "return", !.ret = FALSE, !.drain = "break"]
                 ELSE [r1 EXCEPT !.drain = "continue"]
        ELSE [r EXCEPT !.drain = "break"]

\* Lines 149-158: a request is expected.  "continue", "break" or return false.
DrainRequest(r) ==
    LET l == evbuffer_readline(r.c.input)
    IN  IF l.found
        THEN LET c0 == [r.c EXCEPT !.input = l.input]
                 h  == receive_request(c0, l.request)
                 r1 == [r EXCEPT
                          !.ev = r.ev \o <<[kind      |-> "request",
                                            data      |-> l.request,
                                            before    |-> r.c.input,
                                            input     |-> c0.input,
                                            tcplen    |-> c0.tcplen,
                                            decryptin |-> c0.decryptin,
                                            result    |-> h.result,
                                            post      |-> h.c]>>,
                          !.c  = h.c]
             IN  IF ~h.result
                 THEN [r1 EXCEPT !.go = "return", !.ret = FALSE, !.drain = "break"]
                 ELSE [r1 EXCEPT !.drain = "continue"]
        ELSE [r EXCEPT !.drain = "break"]

\* DrainStep that goes on to look for a line when the packet is incomplete.
DrainStep_FallsThrough(r) ==
    IF r.c.tcplen # 0 /\ r.c.tcplen <= Len(r.c.input)
    THEN DrainPacket(r)
    ELSE DrainRequest(r)

\* Lines 136-158: one pass through the body of the inner loop.
DrainStep(r) ==
    IF r.c.tcplen # 0 THEN DrainPacket(r) ELSE DrainRequest(r)

\* The loops of the model give up after LoopCap passes, more than a read of
\* MAXBUFSIZE bytes can need; a run that gave up has go = "spin".  A pass of
\* a loop is written CHOOSE out \in {after(r1) : r1 \in {pass(r)}} : TRUE, so
\* that the run r1 the pass produces is computed once and the loop goes on
\* from it.
LoopCap == 2 * MAXBUFSIZE + 1

\* Drain with `if` in the place of `while`: one unit per transfer.
Drain_OneUnit(r) ==
    IF Len(r.c.input) = 0
    THEN r
    ELSE CHOOSE out \in
            {[r1 EXCEPT !.inner = r.inner \o
                           <<[removed |-> Len(r.c.input) - Len(r1.c.input),
                              drain   |-> "break"]>>,
                        !.drain = "break"] :
                r1 \in {DrainStep(r)}} : TRUE

\* Lines 133-159: while(c->buffer->input->off) { ... }
RECURSIVE Drain(_)
Drain(r) ==
    IF Len(r.c.input) = 0
    THEN r
    ELSE IF Len(r.inner) >= LoopCap
    THEN [r EXCEPT !.go = "spin"]
    ELSE CHOOSE out \in
            {IF r2.drain = "continue" THEN Drain(r2) ELSE r2 :
                r2 \in {[r1 EXCEPT !.inner = r.inner \o
                                     <<[removed |-> Len(r.c.input) - Len(r1.c.input),
                                        drain   |-> r1.drain]>>] :
                            r1 \in {DrainStep(r)}}} : TRUE

\* Lines 106-160: do { transfer; drain } while(inlen);
RECURSIVE TransferLoop(_, _)
TransferLoop(r, outcome) ==
    IF Len(r.outer) >= LoopCap
    THEN [r EXCEPT !.go = "spin"]
    ELSE CHOOSE out \in
            {IF r2.go # "run" THEN r2
             ELSE IF Len(r2.inbuf) # 0 THEN TransferLoop(r2, outcome)
             ELSE [r2 EXCEPT !.go = "return", !.ret = TRUE] :
                r2 \in {IF r1.go = "return"
                        THEN r1
                        ELSE Drain([r1 EXCEPT !.outer = r.outer \o
                                       <<Len(r.inbuf) - Len(r1.inbuf)>>]) :
                            r1 \in {Transfer(r, outcome)}}} : TRUE

\* receive_meta with the unfinished unit dropped when the call returns.
receive_meta_ForgetsPartial(c, rd, data, outcome, debug) ==
    LET r0 == [c |-> c, inbuf |-> data, ev |-> <<>>, rx |-> <<>>, log |-> <<>>,
               ret |-> TRUE, go |-> "run", drain |-> "break", attempt |-> <<>>,
               outer |-> <<>>, inner |-> <<>>]
        r1 == IF rd.inlen <= 0 THEN NoData(r0, rd, debug) ELSE TransferLoop(r0, outcome)
    IN  IF rd.inlen > 0 THEN [r1 EXCEPT !.c.input = <<>>] ELSE r1

\* Lines 78-163.  data holds the bytes recv stored in inbuf (rd.inlen of them).
receive_meta(c, rd, data, outcome, debug) ==
    LET r0 == [c |-> c, inbuf |-> data, ev |-> <<>>, rx |-> <<>>, log |-> <<>>,
               ret |-> TRUE, go |-> "run", drain |-> "break", attempt |-> <<>>,
               outer |-> <<>>, inner |-> <<>>]
    IN  IF rd.inlen <= 0
        THEN NoData(r0, rd, debug)
        ELSE TransferLoop(r0, outcome)

(***************************************************************************)
(* State.                                                                  *)
(*                                                                         *)
(* Loopback pair (Spec):                                                   *)
(*   conn        connection c of the local daemon, which receives          *)
(*   peer        the loopback peer's end of the connection, which sends    *)
(*   wire        the bytes written by the peer and not yet read            *)
(*   sent        every byte handed to send_meta by the peer, in order      *)
(*   rxall       every byte receive_meta appended to c's buffer, in order  *)
(*   handed      every unit handed to a handler, in order                  *)
(*   last        the last receive_meta or send_meta invocation: its        *)
(*               arguments, the connection before it, and what it produced *)
(*   closed      the caller tore the connection down after a false return  *)
(*   established the pair started with the key exchange already done       *)
(* Registry (SpecSend):                                                    *)
(*   connection_tree  the registered connections, in iteration order       *)
(*   status           per connection: active, encryptout, outcipher        *)
(*   sendlog          the send_meta calls of the last operation, in order  *)
(*   sendop           the last operation and its arguments                 *)
(***************************************************************************)
VARIABLES conn, peer, wire, sent, rxall, handed, last, closed, established,
          connection_tree, status, sendlog, sendop

rvars == <<conn, peer, wire, sent, rxall, handed, last, closed, established>>

svars == <<connection_tree, status, sendlog, sendop>>

vars == <<conn, peer, wire, sent, rxall, handed, last, closed, established,
          connection_tree, status, sendlog, sendop>>

NoCall == [op |-> "none"]

\* The two ends of one connection.  The local daemon has sent its key, so it
\* encrypts what it sends and the peer decrypts what it receives; the peer's
\* key has either not arrived yet (nothing buffered, no packet expected,
\* inbound data in the clear) or the exchange is complete in both directions.
InitPair ==
    /\ established \in BOOLEAN
    /\ conn = [input |-> <<>>, tcplen |-> 0, decryptin |-> established, incipher |-> 0,
               encryptout |-> TRUE, outcipher |-> 0]
    /\ peer = [input |-> <<>>, tcplen |-> 0, decryptin |-> TRUE, incipher |-> 0,
               encryptout |-> established, outcipher |-> 0]
    /\ wire = <<>>
    /\ sent = <<>>
    /\ rxall = <<>>
    /\ handed = <<>>
    /\ last = NoCall
    /\ closed = FALSE

InitRegistry ==
    /\ connection_tree = <<>>
    /\ status = [n \in 1..MaxConn |->
                    [active |-> FALSE, encryptout |-> FALSE, outcipher |-> 0]]
    /\ sendlog = <<>>
    /\ sendop = NoCall

Init == InitPair /\ InitRegistry

InitSend == InitPair /\ ~established /\ InitRegistry

Payload == SeqsUpTo(Byte, MaxPayload) \ {<<>>}

\* The bytes the transport accepted, over the write calls of one send_meta.
RECURSIVE Written(_)
Written(writes) ==
    IF writes = <<>> THEN <<>>
    ELSE (IF writes[1].ok THEN writes[1].data ELSE <<>>) \o Written(Tail(writes))

\* The loopback peer calls send_meta(c, buffer, length) on its end.
PeerSendMeta(buffer) ==
    /\ ~closed
    /\ Len(sent) + Len(buffer) <= MaxStream
    /\ LET s == send_meta(peer, buffer, "ok", "ok")
       IN  /\ peer' = s.c
           /\ wire' = wire \o Written(s.writes)
           /\ sent' = sent \o buffer
           /\ last' = [op |-> "send_meta", pre |-> peer, buffer |-> buffer, run |-> s]
    /\ UNCHANGED <<conn, rxall, handed, closed, established>>
    /\ UNCHANGED svars

Units(ev) == [i \in 1..Len(ev) |-> [kind |-> ev[i].kind, data |-> ev[i].data]]

RxOut(rx) == [i \in 1..Len(rx) |-> rx[i].out]

\* The event loop calls receive_meta(c); rd is what recv returned.  A cipher
\* fault is an input only of the runs that reach the cipher.
Receive(rd, outcome, debug) ==
    LET n == IF rd.inlen > 0 THEN rd.inlen ELSE 0
        r == receive_meta(conn, rd, Take(wire, n), outcome, debug)
    IN  /\ outcome = "ok" \/ r.attempt # <<>>
        /\ conn' = r.c
        /\ wire' = Drop(wire, n)
        /\ rxall' = rxall \o RxOut(r.rx)
        /\ handed' = handed \o Units(r.ev)
        /\ last' = [op |-> "receive_meta", rd |-> rd, pre |-> conn,
                    data |-> Take(wire, n), outcome |-> outcome, debug |-> debug,
                    run |-> r]
        /\ closed' = ~r.ret
        /\ UNCHANGED <<peer, sent, established>>
        /\ UNCHANGED svars

\* The socket is readable and holds data.
ReceiveData ==
    /\ ~closed
    /\ \E n \in 1..Min(Len(wire), MAXBUFSIZE), outcome \in CipherOutcome :
          Receive([inlen |-> n, errno |-> "0"], outcome, FALSE)

\* The socket has nothing to deliver: end of stream, would-block or an error.
ReceiveNoData ==
    /\ ~closed
    /\ wire = <<>>
    /\ \E rd \in ReadResult, debug \in BOOLEAN :
          /\ rd.inlen <= 0
          /\ Receive(rd, "ok", debug)

NextPair ==
    \/ \E buffer \in Payload : PeerSendMeta(buffer)
    \/ ReceiveData
    \/ ReceiveNoData

Spec == Init /\ [][NextPair]_vars

(***************************************************************************)
(* The registry and the Broadcast Writer.                                  *)
(***************************************************************************)
NULLC == 0

ConnId == 1..MaxConn

\* The per-connection fault of one operation: what the cipher call and the
\* write call of a send_meta on that connection will do.
Fault == {"ok", "cipher_fail", "cipher_badlen", "write_fail"}

FaultOutcome(f) ==
    IF f = "cipher_fail" THEN "fail" ELSE IF f = "cipher_badlen" THEN "badlen" ELSE "ok"

FaultWrite(f) == IF f = "write_fail" THEN "fail" ELSE "ok"

\* Lines 70-75: the loop over connection_tree, from node on.  st is the
\* status of every connection, calls the send_meta calls made so far.
\* Eligible without the test against from.
Eligible_IncludesFrom(n, from, st) == st[n].active

\* Line 73: c != from && c->status.active
Eligible(n, from, st) == n # from /\ st[n].active

\* broadcast_loop that leaves the loop when a send_meta call returns false.
RECURSIVE broadcast_loop_StopsOnFailure(_, _, _, _, _)
broadcast_loop_StopsOnFailure(nodes, from, buffer, fault, acc) ==
    IF nodes = <<>>
    THEN acc
    ELSE LET n == Head(nodes)
         IN  IF Eligible(n, from, acc.st)
             THEN LET s  == send_meta(acc.st[n], buffer,
                                      FaultOutcome(fault[n]), FaultWrite(fault[n]))
                      a1 == [st    |-> [acc.st EXCEPT ![n].outcipher = s.c.outcipher],
                             calls |-> acc.calls \o
                                         <<[c |-> n, buffer |-> buffer,
                                            ret |-> s.ret, writes |-> s.writes]>>]
                  IN  IF s.ret
                      THEN broadcast_loop_StopsOnFailure(Tail(nodes), from, buffer, fault, a1)
                      ELSE a1
             ELSE broadcast_loop_StopsOnFailure(Tail(nodes), from, buffer, fault, acc)

RECURSIVE broadcast_loop(_, _, _, _, _)
broadcast_loop(nodes, from, buffer, fault, acc) ==
    IF nodes = <<>>
    THEN acc
    ELSE LET n == Head(nodes)
         IN  IF Eligible(n, from, acc.st)
             THEN LET s == send_meta(acc.st[n], buffer,
                                     FaultOutcome(fault[n]), FaultWrite(fault[n]))
                  IN  broadcast_loop(Tail(nodes), from, buffer, fault,
                         [st    |-> [acc.st EXCEPT ![n].outcipher = s.c.outcipher],
                          calls |-> acc.calls \o
                                      <<[c |-> n, buffer |-> buffer,
                                         ret |-> s.ret, writes |-> s.writes]>>])
             ELSE broadcast_loop(Tail(nodes), from, buffer, fault, acc)

\* Lines 66-76.
broadcast_meta(tree, st, from, buffer, fault) ==
    broadcast_loop(tree, from, buffer, fault, [st |-> st, calls |-> <<>>])

\* The registry in iteration order: the registered ids, ascending.
RECURSIVE Ascending(_)
Ascending(S) ==
    IF S = {} THEN <<>>
    ELSE LET m == CHOOSE x \in S : \A y \in S : x <= y
         IN  <<m>> \o Ascending(S \ {m})

Registered == {connection_tree[i] : i \in 1..Len(connection_tree)}

Fresh == [active |-> FALSE, encryptout |-> FALSE, outcipher |-> 0]

\* Connection lifecycle, driven by the rest of the daemon.
NewConnection(n) ==
    /\ sendop = NoCall
    /\ n \notin Registered
    /\ connection_tree' = Ascending(Registered \cup {n})
    /\ status' = [status EXCEPT ![n] = Fresh]
    /\ UNCHANGED <<sendlog, sendop>>
    /\ UNCHANGED rvars

Activate(n) ==
    /\ sendop = NoCall
    /\ n \in Registered
    /\ ~status[n].active
    /\ status' = [status EXCEPT ![n].active = TRUE]
    /\ UNCHANGED <<connection_tree, sendlog, sendop>>
    /\ UNCHANGED rvars

SetEncryptOut(n) ==
    /\ sendop = NoCall
    /\ n \in Registered
    /\ ~status[n].encryptout
    /\ status' = [status EXCEPT ![n].encryptout = TRUE]
    /\ UNCHANGED <<connection_tree, sendlog, sendop>>
    /\ UNCHANGED rvars

SendBuffer == SeqsUpTo({ByteA, NL}, MaxPayload) \ {<<>>}

\* Some part of the daemon calls send_meta(c, buffer, length).
SendMetaCall(n, buffer, f) ==
    /\ sendop = NoCall
    /\ n \in Registered
    /\ f \in {"cipher_fail", "cipher_badlen"} => status[n].encryptout
    /\ LET s == send_meta(status[n], buffer, FaultOutcome(f), FaultWrite(f))
       IN  /\ status' = [status EXCEPT ![n].outcipher = s.c.outcipher]
           /\ sendlog' = <<[c |-> n, buffer |-> buffer, ret |-> s.ret, writes |-> s.writes]>>
           /\ sendop' = [op |-> "send_meta", c |-> n, buffer |-> buffer,
                         fault |-> f, ret |-> s.ret, log |-> s.log]
    /\ UNCHANGED connection_tree
    /\ UNCHANGED rvars

\* Lines 35-38: send_meta(NULL, ...) logs and aborts the process.
SendMetaNull ==
    /\ sendop = NoCall
    /\ sendop' = [op |-> "abort", log |-> <<"LOG_ERR">>]
    /\ UNCHANGED <<connection_tree, status, sendlog>>
    /\ UNCHANGED rvars

\* A fault is an input only for the connections send_meta is called on, and
\* a cipher fault only where the cipher is used.
FaultFits(from, fault) ==
    \A n \in ConnId :
       /\ (n \notin Registered \/ ~Eligible(n, from, status)) => fault[n] = "ok"
       /\ fault[n] \in {"cipher_fail", "cipher_badlen"} => status[n].encryptout

\* Some part of the daemon calls broadcast_meta(from, buffer, length).
BroadcastMeta(from, buffer, fault) ==
    /\ sendop = NoCall
    /\ from \in Registered \cup {NULLC}
    /\ LET b == broadcast_meta(connection_tree, status, from, buffer, fault)
       IN  /\ status' = b.st
           /\ sendlog' = b.calls
           /\ sendop' = [op |-> "broadcast_meta", from |-> from, buffer |-> buffer,
                         fault |-> fault, tree |-> connection_tree, pre |-> status]
    /\ UNCHANGED connection_tree
    /\ UNCHANGED rvars

NextSend ==
    \/ \E n \in ConnId : NewConnection(n)
    \/ \E n \in ConnId : Activate(n)
    \/ \E n \in ConnId : SetEncryptOut(n)
    \/ \E n \in ConnId, buffer \in SendBuffer, f \in Fault : SendMetaCall(n, buffer, f)
    \/ SendMetaNull
    \/ \E from \in ConnId \cup {NULLC}, fault \in [ConnId -> Fault] :
          /\ sendop = NoCall
          /\ FaultFits(from, fault)
          /\ \E buffer \in SendBuffer : BroadcastMeta(from, buffer, fault)

SpecSend == InitSend /\ [][NextSend]_vars

(***************************************************************************)
(* Properties.                                                             *)
(***************************************************************************)
IsPrefix(a, b) == Len(a) <= Len(b) /\ a = Take(b, Len(a))

LastReceive == last.op = "receive_meta"

AnyWriteFailed(writes) == \E i \in 1..Len(writes) : ~writes[i].ok

\* C1: a send_meta call on a non-null connection whose write to the
\* transport fails returns false, with encryptout set or not.
C1_WriteFailureReturnsFalse ==
    (sendop.op = "send_meta" /\ AnyWriteFailed(sendlog[1].writes)) => ~sendop.ret

(***************************************************************************)
(* Reference for the lines of a byte stream: the pieces between its        *)
(* newline positions.                                                      *)
(***************************************************************************)
NLPositions(s) == {i \in 1..Len(s) : s[i] = NL}

LineEnd(s, k) ==
    CHOOSE i \in NLPositions(s) : Cardinality({j \in NLPositions(s) : j <= i}) = k

LineStart(s, k) == IF k = 1 THEN 1 ELSE LineEnd(s, k - 1) + 1

SplitAtNewlines(s) ==
    [k \in 1..Cardinality(NLPositions(s)) |->
        SubSeq(s, LineStart(s, k), LineEnd(s, k) - 1)]

\* The bytes of the peer's stream that c has read so far.
Consumed == Take(sent, Len(sent) - Len(wire))

HandedData == [i \in 1..Len(handed) |-> handed[i].data]

\* decryptin has been false and tcplen 0 since the connection was created:
\* decryptin is never switched off, and tcplen returns to 0 only through the
\* delivery of a packet.
PlainThroughout ==
    /\ ~conn.decryptin
    /\ conn.tcplen = 0
    /\ \A i \in 1..Len(handed) : handed[i].kind = "request"

Rejected == LastReceive /\ \E i \in 1..Len(last.run.ev) : ~last.run.ev[i].result

\* C2: with decryptin false and tcplen 0 throughout, the lines handed to
\* receive_request over all receive_meta calls are the consumed stream split
\* at its newline bytes, each once and in order, however the stream was cut
\* into reads; a rejected line ends the sequence.
C2_FragmentationIndependence ==
    PlainThroughout =>
        /\ IsPrefix(HandedData, SplitAtNewlines(Consumed))
        /\ ~Rejected => HandedData = SplitAtNewlines(Consumed)

\* Two lines handed over, the second completed by a read of its terminator alone.
C2_Witness ==
    /\ PlainThroughout
    /\ LastReceive
    /\ Len(handed) >= 2
    /\ last.rd.inlen = 1
    /\ last.pre.input # <<>>
    /\ Len(last.run.ev) = 1

\* C3: on a pair with encryptout and decryptin set from the start, the bytes
\* receive_meta has appended to the accumulation buffer are the plaintext
\* handed to send_meta, in order, whatever the payloads and the reads were;
\* while the connection is up nothing read is missing from them.
C3_EncryptedRoundTrip ==
    established =>
        /\ IsPrefix(rxall, sent)
        /\ ~closed => Len(rxall) + Len(wire) = Len(sent)

\* Ciphertext of several bytes, read in more than one piece, all of it appended.
C3_Witness ==
    /\ established
    /\ LastReceive
    /\ ~closed
    /\ Len(rxall) >= 3
    /\ rxall = sent
    /\ last.rd.inlen < Len(rxall)
    /\ \E i \in 1..Len(rxall) : rxall[i] = NL

Run == last.run

Ev == last.run.ev

\* C4: when the cipher's decrypt call fails or returns another length,
\* receive_meta returns false, no decrypted byte enters the accumulation
\* buffer, no handler is invoked after the attempt, and the buffer is as it
\* was when the attempt was made.
C4_DecryptFailureFatal ==
    (LastReceive /\ last.outcome # "ok") =>
        /\ ~Run.ret
        /\ closed
        /\ \A i \in 1..Len(Run.rx) : ~Run.rx[i].dec
        /\ last.pre.decryptin => (Ev = <<>> /\ conn.input = last.pre.input)
        /\ ~last.pre.decryptin =>
              /\ Ev # <<>>
              /\ ~Ev[Len(Ev)].decryptin
              /\ Ev[Len(Ev)].post.decryptin
              /\ conn.input = Ev[Len(Ev)].post.input

\* A wrong output length on a connection that holds a partial unit.
C4_Witness ==
    /\ LastReceive
    /\ last.outcome = "badlen"
    /\ last.pre.decryptin
    /\ last.pre.input # <<>>
    /\ last.rd.inlen >= 2

\* tcplen when handler invocation i was made, as the previous step left it.
TcplenBefore(i) == IF i = 1 THEN last.pre.tcplen ELSE Ev[i - 1].post.tcplen

\* C5: a pending packet of N > 0 bytes is delivered once the buffer holds N
\* bytes: receive_tcppacket gets exactly the first N buffered bytes, they are
\* removed and tcplen becomes 0; the units that follow are dispatched in the
\* same invocation, so a call that returns true leaves no complete unit; and
\* receive_meta itself changes tcplen only by that reset.
C5_BlockThenLine ==
    LastReceive =>
        /\ \A i \in 1..Len(Ev) :
              /\ Ev[i].tcplen = TcplenBefore(i)
              /\ Ev[i].kind = "tcppacket" =>
                    /\ Ev[i].tcplen > 0
                    /\ Len(Ev[i].data) = Ev[i].tcplen
                    /\ Ev[i].data = Take(Ev[i].input, Ev[i].tcplen)
                    /\ Ev[i].post.input = Drop(Ev[i].input, Ev[i].tcplen)
                    /\ Ev[i].post.tcplen = 0
              /\ Ev[i].kind = "request" => Ev[i].tcplen = 0
              /\ (Ev[i].result /\ Ev[i].post.tcplen > 0
                     /\ Len(Ev[i].post.input) >= Ev[i].post.tcplen) =>
                    /\ i < Len(Ev)
                    /\ Ev[i + 1].kind = "tcppacket"
                    /\ Ev[i + 1].input = Ev[i].post.input
        /\ conn.tcplen = IF Ev = <<>> THEN last.pre.tcplen ELSE Ev[Len(Ev)].post.tcplen
        /\ Run.ret =>
              /\ conn.tcplen > 0 => Len(conn.input) < conn.tcplen
              /\ conn.tcplen = 0 => ~HasNL(conn.input)

\* A packet and the line after it, delivered by one invocation.
C5_Witness ==
    /\ LastReceive
    /\ Run.ret
    /\ last.pre.tcplen > 0
    /\ Len(Ev) >= 2
    /\ Ev[1].kind = "tcppacket"
    /\ Ev[2].kind = "request"
    /\ conn.tcplen = 0

\* The plaintext a call appended to the accumulation buffer.
Appended == RxOut(last.run.rx)

\* C6: in line mode, a call whose read brings no terminator invokes no
\* handler, returns true and leaves the bytes in the accumulation buffer; the
\* call whose read brings the terminator hands the whole line over, first and
\* once, the bytes after it staying behind.
C6_PartialLineHeld ==
    (LastReceive /\ last.rd.inlen > 0 /\ last.outcome = "ok"
        /\ last.pre.tcplen = 0 /\ ~HasNL(last.pre.input)) =>
        LET full == last.pre.input \o Appended
        IN  IF ~HasNL(full)
            THEN /\ Ev = <<>>
                 /\ Run.ret
                 /\ ~closed
                 /\ conn.input = full
            ELSE /\ Ev # <<>>
                 /\ Ev[1].kind = "request"
                 /\ Ev[1].data = Take(full, FirstNL(full) - 1)
                 /\ IsPrefix(Ev[1].input, Drop(full, FirstNL(full)))
                 /\ (Len(Ev) = 1 /\ Run.ret) => conn.input = Drop(full, FirstNL(full))

\* The terminator of a line whose first bytes came with an earlier read.
C6_Witness ==
    /\ LastReceive
    /\ last.rd.inlen > 0
    /\ last.pre.tcplen = 0
    /\ last.pre.input # <<>>
    /\ ~HasNL(last.pre.input)
    /\ Len(Ev) = 1
    /\ Ev[1].kind = "request"
    /\ Len(Ev[1].data) > Len(last.pre.input)
    /\ Run.ret

\* C7: a read that fails with would-block makes receive_meta return true,
\* invoke no handler and leave tcplen and the accumulation buffer unchanged.
C7_WouldBlockIsNotFailure ==
    (LastReceive /\ last.rd.inlen < 0 /\ last.rd.errno = "EWOULDBLOCK") =>
        /\ Run.ret
        /\ ~closed
        /\ Ev = <<>>
        /\ conn.tcplen = last.pre.tcplen
        /\ conn.input = last.pre.input

\* Would-block on a connection that waits for the rest of a packet.
C7_Witness ==
    /\ LastReceive
    /\ last.rd.inlen < 0
    /\ last.rd.errno = "EWOULDBLOCK"
    /\ conn.tcplen > 0
    /\ conn.input # <<>>

CallsTo(n) == {i \in 1..Len(sendlog) : sendlog[i].c = n}

\* C8: broadcast_meta(from, buffer, length) calls send_meta exactly once for
\* each registered connection other than from whose active flag is set, with
\* the same buffer, and for no other connection.
C8_BroadcastExclusion ==
    sendop.op = "broadcast_meta" =>
        /\ \A n \in ConnId :
              Cardinality(CallsTo(n)) =
                 IF /\ n \in Registered
                    /\ n # sendop.from
                    /\ sendop.pre[n].active
                 THEN 1 ELSE 0
        /\ \A i \in 1..Len(sendlog) : sendlog[i].buffer = sendop.buffer

\* A broadcast from a registered connection, past an inactive one, that
\* reaches another.
C8_Witness ==
    /\ sendop.op = "broadcast_meta"
    /\ sendop.from \in Registered
    /\ sendop.pre[sendop.from].active
    /\ \E n \in Registered : n # sendop.from /\ ~sendop.pre[n].active
    /\ Len(sendlog) >= 1

\* C9: a read of zero bytes makes receive_meta return false, invoke no
\* handler, leave the accumulation buffer and tcplen unchanged and emit no
\* error-severity diagnostic.
C9_CloseIsNotError ==
    (LastReceive /\ last.rd.inlen = 0) =>
        /\ ~Run.ret
        /\ closed
        /\ Ev = <<>>
        /\ conn.input = last.pre.input
        /\ conn.tcplen = last.pre.tcplen
        /\ \A i \in 1..Len(Run.log) : Run.log[i] # "LOG_ERR"

\* The peer closes with a partial unit buffered and errno left over from an
\* earlier call; the notice is logged.
C9_Witness ==
    /\ LastReceive
    /\ last.rd.inlen = 0
    /\ last.rd.errno = "ECONNRESET"
    /\ conn.input # <<>>
    /\ Run.log = <<"LOG_NOTICE">>

\* C10: receive_meta returns false exactly when the read reported a close
\* (zero bytes, or a failure with no error set), the read failed with an
\* error other than would-block, a decryption failed or changed the length,
\* or receive_request rejected a line.
C10_FalseIffTearDown ==
    LastReceive =>
        /\ (~Run.ret) <=>
              \/ last.rd.inlen = 0
              \/ last.rd.inlen < 0 /\ last.rd.errno # "EWOULDBLOCK"
              \/ last.outcome # "ok"
              \/ \E i \in 1..Len(Ev) : ~Ev[i].result
        /\ closed <=> ~Run.ret

\* A line rejected after another unit was processed in the same invocation.
C10_Witness ==
    /\ LastReceive
    /\ ~Run.ret
    /\ last.rd.inlen > 0
    /\ last.outcome = "ok"
    /\ Len(Ev) >= 2
    /\ ~Ev[Len(Ev)].result

\* The fault injected into call i of the last operation.
FaultOf(i) ==
    IF sendop.op = "send_meta" THEN sendop.fault ELSE sendop.fault[sendlog[i].c]

\* The cipher position of connection n before call i: n is called at most
\* once per operation, and a call advances the cipher by the bytes it was given.
OutcipherBefore(i) ==
    IF status[sendlog[i].c].encryptout
    THEN status[sendlog[i].c].outcipher - Len(sendlog[i].buffer)
    ELSE status[sendlog[i].c].outcipher

\* C11: a send_meta call on an encrypting connection whose cipher call fails
\* or yields another length returns false and issues no write; when the cipher
\* succeeds it issues exactly one write of exactly length bytes, which are the
\* ciphertext of the buffer; on a connection that does not encrypt it issues
\* exactly one write of the buffer verbatim.
C11_EncryptFailureWritesNothing ==
    sendop.op \in {"send_meta", "broadcast_meta"} =>
       \A i \in 1..Len(sendlog) :
          LET call == sendlog[i]
              enc  == status[call.c].encryptout
              bad  == FaultOf(i) \in {"cipher_fail", "cipher_badlen"}
          IN  /\ (enc /\ bad) => (~call.ret /\ call.writes = <<>>)
              /\ (enc /\ ~bad) =>
                    /\ Len(call.writes) = 1
                    /\ Len(call.writes[1].data) = Len(call.buffer)
                    /\ call.writes[1].data # call.buffer
                    /\ \A k \in 1..Len(call.buffer) :
                          DecByte(call.writes[1].data[k], OutcipherBefore(i) + k - 1)
                             = call.buffer[k]
              /\ ~enc =>
                    /\ Len(call.writes) = 1
                    /\ call.writes[1].data = call.buffer

C11_Witness ==
    /\ sendop.op = "send_meta"
    /\ status[sendop.c].encryptout
    /\ sendop.fault = "cipher_badlen"
    /\ ~sendop.ret
    /\ sendlog[1].writes = <<>>

\* The place of connection n in the registry order of the last broadcast.
PlaceOf(n) == CHOOSE k \in 1..Len(sendop.tree) : sendop.tree[k] = n

CallFailed(i) == ~sendlog[i].ret \/ AnyWriteFailed(sendlog[i].writes)

\* C12: when a send_meta call of a broadcast fails, every eligible peer later
\* in registry order is still called, after the failed call and once; the
\* broadcast leaves the registry and every peer's active flag as they were.
C12_FireAndForget ==
    sendop.op = "broadcast_meta" =>
       /\ connection_tree = sendop.tree
       /\ \A n \in ConnId : status[n].active = sendop.pre[n].active
       /\ \A i \in 1..Len(sendlog) :
             CallFailed(i) =>
                \A k \in 1..Len(sendop.tree) :
                   LET n == sendop.tree[k]
                   IN  (k > PlaceOf(sendlog[i].c) /\ n # sendop.from /\ sendop.pre[n].active)
                          => Cardinality({j \in (i+1)..Len(sendlog) : sendlog[j].c = n}) = 1

C12_Witness ==
    /\ sendop.op = "broadcast_meta"
    /\ Len(sendlog) >= 2
    /\ ~sendlog[1].ret
    /\ sendlog[2].ret
    /\ sendlog[2].writes # <<>>

\* The bytes of a unit as they stood in the stream: a line with its terminator.
UnitBytes(u) == IF u.kind = "request" THEN u.data \o <<NL>> ELSE u.data

RECURSIVE Flatten(_)
Flatten(units) ==
    IF units = <<>> THEN <<>> ELSE UnitBytes(Head(units)) \o Flatten(Tail(units))

\* The number of bytes of the last read that were appended in the clear.
ClearCount == Cardinality({j \in 1..Len(Run.rx) : ~Run.rx[j].dec})

\* C13: while every receive_meta call on the connection has returned true,
\* the units handed to the two handlers (lines with their terminator), in
\* dispatch order, followed by the accumulation buffer, are the plaintext of
\* the bytes read so far, in arrival order: each byte read was appended once,
\* in the clear or decrypted at its place in the cipher stream.
C13_ByteConservation ==
    /\ ~closed =>
          /\ Flatten(handed) \o conn.input = rxall
          /\ Len(rxall) = Len(Consumed)
          /\ ~conn.decryptin => rxall = Consumed
          /\ established => rxall = Take(sent, Len(Consumed))
    /\ (LastReceive /\ Run.ret /\ last.rd.inlen > 0) =>
          /\ [j \in 1..Len(Run.rx) |-> Run.rx[j].raw] = last.data
          /\ \A j \in 1..Len(Run.rx) :
                IF j <= ClearCount
                THEN ~Run.rx[j].dec /\ Run.rx[j].out = Run.rx[j].raw
                ELSE /\ Run.rx[j].dec
                     /\ Run.rx[j].out =
                           DecByte(Run.rx[j].raw, last.pre.incipher + j - ClearCount - 1)

\* A line, then a packet, then the start of another unit, with reads that
\* cut across them.
C13_Witness ==
    /\ ~closed
    /\ LastReceive
    /\ Len(handed) >= 2
    /\ \E i, j \in 1..Len(handed) :
          i < j /\ handed[i].kind = "request" /\ handed[j].kind = "tcppacket"
    /\ conn.input # <<>>
    /\ last.pre.input # <<>>

\* Reference demultiplexer: the units of a plaintext stream, given the packet
\* length pending at its start.  A line handed to receive_request may set the
\* packet length; a rejected line is the last unit.
RECURSIVE RefUnits(_, _)
RefUnits(s, pending) ==
    IF pending > 0
    THEN IF Len(s) < pending
         THEN <<>>
         ELSE <<[kind |-> "tcppacket", data |-> Take(s, pending)]>>
                 \o RefUnits(Drop(s, pending), 0)
    ELSE IF ~HasNL(s)
         THEN <<>>
         ELSE LET line == Take(s, FirstNL(s) - 1)
                  h    == receive_request([tcplen |-> 0, decryptin |-> FALSE], line)
              IN  <<[kind |-> "request", data |-> line]>>
                     \o (IF h.result THEN RefUnits(Drop(s, FirstNL(s)), h.c.tcplen)
                         ELSE <<>>)

\* C14: receive_request is called only while tcplen is 0; while a packet of
\* N bytes is pending and fewer than N bytes are buffered no line is taken
\* out, newline bytes or not: the units handed over are those of the reference
\* demultiplexer, which takes the N bytes after a line that announced a packet
\* as the packet, on the plain and on the decrypted path alike.
C14_BlockBytesNotLineParsed ==
    /\ handed = RefUnits(rxall, 0)
    /\ LastReceive =>
          /\ \A i \in 1..Len(Ev) :
                Ev[i].kind = "request" =>
                   (Ev[i].tcplen = 0 /\ TcplenBefore(i) = 0)
          /\ (last.pre.tcplen > Len(last.pre.input) + Len(Appended)) => Ev = <<>>

\* A line announces a packet of two bytes; the same read brings a newline
\* byte after it, which stays in the buffer as the packet's first byte.
C14_Witness ==
    /\ LastReceive
    /\ Run.ret
    /\ ~last.pre.decryptin
    /\ Len(Ev) = 1
    /\ Ev[1].kind = "request"
    /\ conn.tcplen = 2
    /\ conn.input = <<NL>>

\* C15: when receive_request reports failure for a line, receive_meta returns
\* false at once: the rejected line is the last handler invocation of the
\* call, the connection stays as the handler left it, complete units or not
\* in the buffer, and the scratch bytes not yet transferred stay where they
\* are, neither appended nor decrypted.
C15_RejectionStopsProcessing ==
    LastReceive =>
       \A i \in 1..Len(Ev) :
          ~Ev[i].result =>
             /\ Ev[i].kind = "request"
             /\ i = Len(Ev)
             /\ Run.go = "return"
             /\ ~Run.ret
             /\ closed
             /\ conn = Ev[i].post
             /\ conn.input = Ev[i].input
             /\ Run.inbuf = Drop(last.data, Len(Run.rx))
             /\ ~Ev[i].decryptin =>
                   /\ Run.rx # <<>>
                   /\ Run.rx[Len(Run.rx)].raw = NL
                   /\ \A j \in 1..Len(Run.rx) : ~Run.rx[j].dec

\* A rejected line with a complete line behind it in the buffer.
C15_Witness ==
    /\ LastReceive
    /\ Ev # <<>>
    /\ ~Ev[Len(Ev)].result
    /\ ~Run.ret
    /\ conn.tcplen = 0
    /\ HasNL(conn.input)

\* The buffer of connection c holds no complete unit under its current mode.
Quiescent(c) ==
    /\ c.tcplen > 0 => Len(c.input) < c.tcplen
    /\ c.tcplen = 0 => ~HasNL(c.input)

\* C16: whenever receive_meta returns true the accumulation buffer holds no
\* complete unit: fewer than N bytes while a packet of N > 0 bytes is pending,
\* no line terminator while none is; so between calls a live connection never
\* holds one.
C16_QuiescentAfterTrue ==
    /\ (LastReceive /\ Run.ret) => (~closed /\ Quiescent(conn))
    /\ ~closed => Quiescent(conn)

\* Two lines and the start of a third decrypted by one call; the start stays.
C16_Witness ==
    /\ LastReceive
    /\ Run.ret
    /\ last.pre.decryptin
    /\ Len(Ev) >= 2
    /\ conn.input # <<>>
    /\ Len(last.data) >= 3

\* The handler invocation of the last call that switched decryptin on, or 0.
SwitchEvent ==
    IF \E i \in 1..Len(Ev) : ~Ev[i].decryptin /\ Ev[i].post.decryptin
    THEN CHOOSE i \in 1..Len(Ev) : ~Ev[i].decryptin /\ Ev[i].post.decryptin
    ELSE 0

\* The raw bytes of the last read that were appended, in order.
RawAppended == [j \in 1..Len(Run.rx) |-> Run.rx[j].raw]

IsSuffix(a, b) == Len(a) <= Len(b) /\ a = Drop(b, Len(b) - Len(a))

\* C17: when a call starts with decryptin false and receive_request switches
\* it on while handling a line, the bytes of the read up to and including
\* that line's terminator are appended as they came, and every byte of the
\* read after it goes through cipher_decrypt first, at consecutive cipher
\* positions; none of them is appended in the clear.
C17_MidReadUpgrade ==
    (LastReceive /\ last.rd.inlen > 0 /\ ~last.pre.decryptin /\ SwitchEvent # 0) =>
       LET i == SwitchEvent
           k == ClearCount
       IN  /\ Ev[i].kind = "request"
           /\ k >= 1
           /\ RawAppended = Take(last.data, Len(Run.rx))
           /\ Run.rx[k].raw = NL
           /\ IsSuffix(Ev[i].data \o <<NL>>, last.pre.input \o Take(last.data, k))
           /\ Ev[i].input = <<>>
           /\ \A j \in 1..k : ~Run.rx[j].dec /\ Run.rx[j].out = Run.rx[j].raw
           /\ \A j \in (k + 1)..Len(Run.rx) :
                 /\ Run.rx[j].dec
                 /\ Run.rx[j].out = DecByte(Run.rx[j].raw, last.pre.incipher + j - k - 1)
           /\ \A j \in 1..Len(Ev) :
                 (j < i => ~Ev[j].post.decryptin) /\ (j > i => Ev[j].decryptin)
           /\ last.outcome = "ok" => Len(Run.rx) = last.rd.inlen
           /\ (last.outcome # "ok" /\ k < last.rd.inlen) => Len(Run.rx) = k
           /\ conn.decryptin

\* The line that switches decryption on arrives together with two bytes more.
C17_Witness ==
    /\ LastReceive
    /\ ~last.pre.decryptin
    /\ SwitchEvent # 0
    /\ Run.ret
    /\ Len(Run.rx) >= ClearCount + 2
    /\ \E j \in 1..Len(Run.rx) : Run.rx[j].dec /\ Run.rx[j].out # Run.rx[j].raw

OtherCipher == 0..2

\* What a receive_meta run hands to the handlers, with their answers.
Dispatched(ev) ==
    [i \in 1..Len(ev) |->
        [kind |-> ev[i].kind, data |-> ev[i].data, result |-> ev[i].result]]

\* decryptin when handler invocation i was made, as the previous step left it.
DecryptinBefore(i) == IF i = 1 THEN last.pre.decryptin ELSE Ev[i - 1].post.decryptin

\* C19: what send_meta returns and writes is the same whatever decryptin and
\* the inbound cipher state of the connection are, and what receive_meta
\* returns, hands to the handlers, logs and leaves in the buffer and in tcplen
\* is the same whatever encryptout and the outbound cipher state are; a
\* connection with encryptout set and decryptin clear takes its inbound bytes
\* in the clear; neither function writes either flag (decryptin changes only
\* inside receive_request).
C19_DirectionIndependence ==
    /\ last.op = "send_meta" =>
          /\ \A d \in BOOLEAN, p \in OtherCipher :
                LET alt == send_meta([last.pre EXCEPT !.decryptin = d, !.incipher = p],
                                     last.buffer, "ok", "ok")
                IN  /\ alt.ret = last.run.ret
                    /\ alt.writes = last.run.writes
                    /\ alt.c.outcipher = last.run.c.outcipher
                    /\ alt.c.decryptin = d
                    /\ alt.c.incipher = p
                    /\ alt.c.encryptout = last.pre.encryptout
          /\ peer.encryptout = last.pre.encryptout
          /\ peer.decryptin = last.pre.decryptin
          /\ peer.incipher = last.pre.incipher
    /\ LastReceive =>
          /\ \A b \in BOOLEAN, p \in OtherCipher :
                LET alt == receive_meta([last.pre EXCEPT !.encryptout = b, !.outcipher = p],
                                        last.rd, last.data, last.outcome, last.debug)
                IN  /\ alt.ret = Run.ret
                    /\ Dispatched(alt.ev) = Dispatched(Ev)
                    /\ alt.log = Run.log
                    /\ alt.c.input = conn.input
                    /\ alt.c.tcplen = conn.tcplen
                    /\ alt.c.decryptin = conn.decryptin
                    /\ alt.c.incipher = conn.incipher
                    /\ alt.c.encryptout = b
                    /\ alt.c.outcipher = p
          /\ conn.encryptout = last.pre.encryptout
          /\ conn.outcipher = last.pre.outcipher
          /\ \A i \in 1..Len(Ev) : Ev[i].decryptin = DecryptinBefore(i)
          /\ conn.decryptin = IF Ev = <<>> THEN last.pre.decryptin
                              ELSE Ev[Len(Ev)].post.decryptin
          /\ (last.pre.encryptout /\ ~last.pre.decryptin /\ Run.rx # <<>>) =>
                (~Run.rx[1].dec /\ Run.rx[1].out = Run.rx[1].raw)

\* A connection that encrypts what it sends reads a line in the clear.
C19_Witness ==
    /\ LastReceive
    /\ last.pre.encryptout
    /\ ~last.pre.decryptin
    /\ Run.ret
    /\ Ev # <<>>
    /\ Ev[1].kind = "request"
    /\ Ev[1].data = [j \in 1..Len(Ev[1].data) |-> Run.rx[j].raw]
    /\ Ev[1].data # <<>>

RECURSIVE SumOf(_)
SumOf(s) == IF s = <<>> THEN 0 ELSE Head(s) + SumOf(Tail(s))

\* C20: every receive_meta call returns, having read from the transport once:
\* each pass of the outer loop consumes at least one byte of the scratch
\* buffer, each pass of the inner loop removes at least one byte from the
\* accumulation buffer or leaves the loop, and so the passes are bounded by
\* the bytes at hand, whatever receive_request did to tcplen and decryptin.
C20_ReceiveTerminates ==
    LastReceive =>
       /\ Run.go = "return"
       /\ Len(last.data) = (IF last.rd.inlen > 0 THEN last.rd.inlen ELSE 0)
       /\ Len(Run.rx) <= Len(last.data)
       /\ \A k \in 1..Len(Run.outer) : Run.outer[k] >= 1
       /\ SumOf(Run.outer) + Len(Run.inbuf) = Len(last.data)
       /\ Len(Run.outer) <= Len(last.data)
       /\ \A k \in 1..Len(Run.inner) :
             /\ Run.inner[k].drain = "continue" => Run.inner[k].removed >= 1
             /\ Run.inner[k].drain = "break" => k = Len(Run.inner) \/ Run.inner[k].removed = 0
             /\ Run.inner[k].removed = 0 => Run.inner[k].drain = "break"
       /\ Len(Run.inner) <= Len(last.pre.input) + Len(last.data) + Len(Run.outer)
       /\ Len(Run.inner) >= Len(Ev)
       /\ last.rd.inlen <= 0 => (Run.outer = <<>> /\ Run.inner = <<>> /\ conn = last.pre)

\* A read cut into two pieces by the outer loop, with a line that sets
\* tcplen and the packet after it drained by the inner loop.
C20_Witness ==
    /\ LastReceive
    /\ Run.ret
    /\ Len(Run.outer) >= 2
    /\ Len(Run.inner) >= 3
    /\ \E i \in 1..Len(Ev) : Ev[i].post.tcplen > 0
    /\ \E i \in 1..Len(Ev) : Ev[i].kind = "tcppacket"

====
